---- MODULE Spec2Model ----
(***************************************************************************)
(* The fetch pipeline of substack_mention_tracker.py as a state machine:   *)
(* main's loop over the queries, fetch_all_results (pagination and         *)
(* deduplication) and fetch_search_page (one page with retry and backoff). *)
(* The HTTP server is the environment: each request is answered by a       *)
(* response drawn from Responses, or by a transport failure.               *)
(***************************************************************************)
EXTENDS Integers, Sequences, FiniteSets, TLC

\* ------------------------------------------------------------------ bounds

\* largest value of --max-pages the runs are explored with
MaxPages == 2
\* largest number of records the server puts on one page
MaxPageLen == 2
\* largest number of period keys in one bucket mapping
MaxKeys == 2
\* longest series rolling_average is applied to
MaxSeries == 4
\* largest window rolling_average is applied with
MaxWindow == 8

\* ------------------------------------------------------- program constants

MAX_RETRIES == 5
INITIAL_BACKOFF == 10

\* the default of fetch_search_page's parameter, which its only caller uses
max_retries == MAX_RETRIES

\* ------------------------------------------------------------- environment

DEFAULT_QUERIES == <<"Claude Code", "AI coding">>

\* the values of --queries the runs are explored with
QueryLists == {<<"Claude Code">>, DEFAULT_QUERIES}

\* status codes the server answers with
Statuses == {200, 400, 404, 422, 429, 500, 502, 503}

\* resp.headers of a response: a dict that has the key "Retry-After" or not.
\* The header's value is what HTTP allows (a number of seconds or a date),
\* or empty.
NoHeaders == <<>>
RetryAfterValues == {"", "Wed, 21 Oct 2026 07:28:00 GMT", "5"}
RetryAfterHeaders == {NoHeaders} \cup {("Retry-After" :> s) : s \in RetryAfterValues}

\* the records the server has: without an id, with a falsy id, two records
\* that share id 1, one record with id 2
Posts ==
    { [title |-> "n"],
      [id |-> 0, title |-> "z"],
      [id |-> 1, title |-> "a"],
      [id |-> 1, title |-> "b"],
      [id |-> 2, title |-> "c"] }

ResultLists == UNION {[1..n -> Posts] : n \in 0..MaxPageLen}

\* the parsed JSON body of a successful response: the keys "results" and
\* "more" are each present or absent
Bodies ==
    {[results |-> rs, more |-> m] : rs \in ResultLists, m \in BOOLEAN} \cup
    {[results |-> rs] : rs \in ResultLists} \cup
    {[more |-> m] : m \in BOOLEAN} \cup
    {<<>>}

NoBody == <<>>

\* A response, reduced to what the code reads of it: the headers of a
\* retryable status and the body of a success.
Responses ==
    {[status_code |-> s, headers |-> h, body |-> NoBody] :
        s \in {429, 502, 503}, h \in RetryAfterHeaders} \cup
    {[status_code |-> s, headers |-> NoHeaders, body |-> NoBody] :
        s \in Statuses \ {200, 429, 502, 503}} \cup
    {[status_code |-> 200, headers |-> NoHeaders, body |-> b] : b \in Bodies}

NoResp == [status_code |-> 0, headers |-> NoHeaders, body |-> NoBody]

\* ------------------------------------------------------------------- state

VARIABLES
    queries,      \* args.queries
    max_pages,    \* args.max_pages
    pc,           \* where the run is
    qi,           \* main: number of queries whose fetch has returned
    all_posts,    \* main: query -> posts
    page,         \* fetch_all_results: the loop variable
    all_results,  \* fetch_all_results
    seen_ids,     \* fetch_all_results
    data,         \* fetch_all_results: the page fetch_search_page returned
    exc,          \* status code of the HTTPError raised in this collection, 0 when none
    attempt,      \* fetch_search_page: the loop variable
    backoff,      \* fetch_search_page
    wait_time,    \* fetch_search_page: the argument of the latest time.sleep
    resp,         \* fetch_search_page: the latest response
    nReq,         \* history: requests.get calls of the latest fetch_search_page
    nSleeps,      \* history: time.sleep calls of the latest fetch_search_page
    attempted,    \* history: pages fetch_search_page was called with, this collection
    firstSeen,    \* history: first occurrence of each truthy id on the pages processed
    idsSeen,      \* history: truthy ids on the pages processed, this collection
    sumCounts,    \* history: sum of len(results) of the pages returned, this collection
    nDelays,      \* history: time.sleep(delay) calls of this collection
    totalReq,     \* history: requests.get calls of this collection (counting runs only)
    fn,           \* the aggregation function applied to the inputs below, "none" in a run
    buckets,      \* build_*_timeline: the argument, query -> keys of its bucket mapping
    timeline,     \* build_*_timeline: the value returned
    xs,           \* rolling_average: the argument values
    w,            \* rolling_average: the argument window
    averages,     \* rolling_average: the value returned
    applied       \* number of applications of fn so far

mainVars == <<queries, max_pages, qi, all_posts>>
collVars == <<page, all_results, seen_ids, data>>
pageVars == <<attempt, backoff, wait_time, resp>>
pageHist == <<nReq, nSleeps>>
collHist == <<attempted, firstSeen, idsSeen, sumCounts, nDelays>>
fetchVars == <<mainVars, pc, collVars, exc, pageVars, pageHist, collHist>>
aggVars == <<fn, buckets, timeline, xs, w, averages, applied>>
vars == <<fetchVars, totalReq, aggVars>>

\* ----------------------------------------------------------------- helpers

\* dict.get(key, default)
Get(d, key, default) == IF key \in DOMAIN d THEN d[key] ELSE default

\* a variant of IsRetryable that takes every 5xx status for transient
IsRetryable_Any5xx(status) == status = 429 \/ status >= 500

\* fetch_search_page: resp.status_code in (429, 502, 503)
IsRetryable(status) == status \in {429, 502, 503}

\* a variant of CanRetry that is off by one
CanRetry_OffByOne(a) == a <= max_retries

\* fetch_search_page: attempt < max_retries
CanRetry(a) == a < max_retries

\* requests' Response.raise_for_status: raises HTTPError for 4xx and 5xx
RaisesForStatus(status) == 400 <= status /\ status < 600

\* float(s): the strings that parse, and their values
IsFloat(s) == s \in {"5"}
Float(s) == CASE s = "5" -> 5

\* a variant of WaitTime that ignores the Retry-After header
WaitTime_NoHeader(r, b) == b

\* fetch_search_page: the wait before the next attempt
WaitTime(r, b) ==
    IF "Retry-After" \in DOMAIN r.headers /\ r.headers["Retry-After"] # ""
    THEN IF IsFloat(r.headers["Retry-After"])
         THEN Float(r.headers["Retry-After"])
         ELSE b
    ELSE b

\* a variant of NextBackoff that halves
NextBackoff_Halved(b) == b \div 2

\* fetch_search_page: backoff *= 2
NextBackoff(b) == b * 2

\* a variant of InRange that includes the upper end
InRange_Inclusive(p, n) == 0 <= p /\ p <= n

\* fetch_all_results: page in range(max_pages)
InRange(p, n) == 0 <= p /\ p < n

\* a variant of IsPageLimit without 422
IsPageLimit_No422(status) == status \in {400, 502, 503}

\* fetch_all_results: the statuses of the first `if` of the except clause
IsPageLimit(status) == status \in {400, 422, 502, 503}

\* a variant of IsRateLimit that takes every status from 429 on
IsRateLimit_AtLeast429(status) == status >= 429

\* fetch_all_results: the status of the second `if` of the except clause
IsRateLimit(status) == status = 429

\* fetch_all_results: pid = post.get("id"); `if pid`
HasTruthyId(post) == "id" \in DOMAIN post /\ post.id # 0

\* a variant of IsNew that does not look at seen_ids
IsNew_NoSeenCheck(post, seen) == HasTruthyId(post)

\* fetch_all_results: the condition under which a post is appended
IsNew(post, seen) == HasTruthyId(post) /\ post.id \notin seen

\* fetch_all_results: the loop over the results of one page, from index i on
RECURSIVE DedupFrom(_, _, _, _)
DedupFrom(acc, seen, results, i) ==
    IF i > Len(results)
    THEN [all_results |-> acc, seen_ids |-> seen]
    ELSE IF IsNew(results[i], seen)
         THEN DedupFrom(Append(acc, results[i]), seen \cup {results[i].id}, results, i + 1)
         ELSE DedupFrom(acc, seen, results, i + 1)

DedupPage(acc, seen, results) == DedupFrom(acc, seen, results, 1)

\* fetch_all_results: results = data.get("results", [])
ResultsOf(d) == Get(d, "results", <<>>)

\* a variant of HasMore whose default is True
HasMore_DefaultTrue(d) == Get(d, "more", TRUE)

\* fetch_all_results: has_more = data.get("more", False)
HasMore(d) == Get(d, "more", FALSE)

\* a variant of StorePosts that stores no empty result
StorePosts_SkipEmpty(m, query, posts) ==
    IF posts = <<>> THEN m ELSE (query :> posts) @@ m

\* main: all_posts[query] = posts
StorePosts(m, query, posts) == (query :> posts) @@ m

\* ------------------------------------------------------- history operators

\* the response carries a Retry-After header whose value is a number
NumericRetryAfter(r) ==
    "Retry-After" \in DOMAIN r.headers /\ IsFloat(r.headers["Retry-After"])

\* 2^k
RECURSIVE Pow2(_)
Pow2(k) == IF k = 0 THEN 1 ELSE 2 * Pow2(k - 1)

\* the truthy ids that occur in a sequence of records
TruthyIds(s) == {s[i].id : i \in {j \in 1..Len(s) : HasTruthyId(s[j])}}

\* the positions of s that hold the first record of a truthy id
FirstPositions(s) ==
    {i \in 1..Len(s) :
        /\ HasTruthyId(s[i])
        /\ \A j \in 1..(i - 1) : ~(HasTruthyId(s[j]) /\ s[j].id = s[i].id)}

RECURSIVE Pick(_, _, _)
Pick(s, K, i) ==
    IF i > Len(s) THEN <<>>
    ELSE (IF i \in K THEN <<s[i]>> ELSE <<>>) \o Pick(s, K, i + 1)

\* s reduced to the first record of each truthy id, in the order of s
FirstOccurrences(s) == Pick(s, FirstPositions(s), 1)

\* -------------------------------------------------------------------- Init

Init ==
    /\ queries \in QueryLists
    /\ max_pages \in -1..MaxPages
    /\ pc = "main"
    /\ qi = 0
    /\ all_posts = <<>>
    /\ page = 0
    /\ all_results = <<>>
    /\ seen_ids = {}
    /\ data = NoBody
    /\ exc = 0
    /\ attempt = 0
    /\ backoff = 0
    /\ wait_time = 0
    /\ resp = NoResp
    /\ nReq = 0
    /\ nSleeps = 0
    /\ attempted = <<>>
    /\ firstSeen = <<>>
    /\ idsSeen = {}
    /\ sumCounts = 0
    /\ nDelays = 0
    /\ totalReq = 0
    /\ fn = "none"
    /\ buckets = <<>>
    /\ timeline = <<>>
    /\ xs = <<>>
    /\ w = 0
    /\ averages = <<>>
    /\ applied = 0

\* -------------------------------------------------------------------- main

\* main: the loop takes the next query and calls fetch_all_results
MainNextQuery ==
    /\ pc = "main"
    /\ qi < Len(queries)
    /\ pc' = "page_loop"
    /\ page' = 0
    /\ all_results' = <<>>
    /\ seen_ids' = {}
    /\ attempted' = <<>>
    /\ firstSeen' = <<>>
    /\ idsSeen' = {}
    /\ sumCounts' = 0
    /\ nDelays' = 0
    /\ UNCHANGED <<mainVars, data, exc, pageVars, pageHist>>

\* main: all_posts[query] = posts, when fetch_all_results has returned
MainStore ==
    /\ pc = "return"
    /\ all_posts' = StorePosts(all_posts, queries[qi + 1], all_results)
    /\ qi' = qi + 1
    /\ pc' = "main"
    /\ page' = 0
    /\ all_results' = <<>>
    /\ seen_ids' = {}
    /\ attempted' = <<>>
    /\ firstSeen' = <<>>
    /\ idsSeen' = {}
    /\ sumCounts' = 0
    /\ nDelays' = 0
    /\ exc' = 0
    /\ nReq' = 0
    /\ nSleeps' = 0
    /\ UNCHANGED <<queries, max_pages, data, pageVars>>

\* main: the loop is over, the analyses and exports follow
MainExport ==
    /\ pc = "main"
    /\ qi = Len(queries)
    /\ pc' = "export"
    /\ UNCHANGED <<mainVars, collVars, exc, pageVars, pageHist, collHist>>

\* ------------------------------------------------------- fetch_all_results

\* for page in range(max_pages): the call of fetch_search_page(query, page)
CallFetchPage ==
    /\ pc = "page_loop"
    /\ InRange(page, max_pages)
    /\ pc' = "request"
    /\ attempt' = 0
    /\ backoff' = INITIAL_BACKOFF
    /\ wait_time' = 0
    /\ resp' = NoResp
    /\ nReq' = 0
    /\ nSleeps' = 0
    /\ attempted' = Append(attempted, page)
    /\ UNCHANGED <<mainVars, collVars, exc, firstSeen, idsSeen, sumCounts, nDelays>>

\* the range is exhausted: return all_results
LoopExhausted ==
    /\ pc = "page_loop"
    /\ ~InRange(page, max_pages)
    /\ pc' = "return"
    /\ UNCHANGED <<mainVars, collVars, exc, pageVars, pageHist, collHist>>

\* except requests.exceptions.HTTPError: break on a page limit or a rate
\* limit, re-raise anything else (main catches nothing). exc.response is
\* never None: raise_for_status sets it.
HandleHTTPError ==
    /\ pc = "except"
    /\ pc' = IF IsPageLimit(exc) \/ IsRateLimit(exc) THEN "return" ELSE "aborted"
    /\ resp' = NoResp
    /\ UNCHANGED <<mainVars, collVars, exc, attempt, backoff, wait_time, pageHist, collHist>>

\* the body of the loop after fetch_search_page has returned a page
ProcessPage ==
    /\ pc = "got"
    /\ LET results == ResultsOf(data)
           d == DedupPage(all_results, seen_ids, results)
       IN  /\ sumCounts' = sumCounts + Len(results)
           /\ IF results = <<>>
              THEN /\ pc' = "return"
                   /\ UNCHANGED <<page, all_results, seen_ids, firstSeen, idsSeen, nDelays>>
              ELSE /\ all_results' = d.all_results
                   /\ seen_ids' = d.seen_ids
                   /\ firstSeen' = FirstOccurrences(firstSeen \o results)
                   /\ idsSeen' = idsSeen \cup TruthyIds(results)
                   /\ IF HasMore(data)
                      THEN pc' = "page_loop" /\ page' = page + 1 /\ nDelays' = nDelays + 1
                      ELSE pc' = "return" /\ page' = page /\ nDelays' = nDelays
    /\ data' = NoBody
    /\ resp' = NoResp
    /\ UNCHANGED <<mainVars, exc, attempt, backoff, wait_time, pageHist, attempted>>

\* ------------------------------------------------------- fetch_search_page

\* the locals of fetch_search_page end with the call
LeaveFetchPage ==
    /\ attempt' = 0
    /\ backoff' = 0
    /\ wait_time' = 0

\* a retryable status while attempts are left: sleep, double the backoff
RetryAfterWait(r) ==
    /\ IsRetryable(r.status_code)
    /\ CanRetry(attempt)
    /\ wait_time' = WaitTime(r, backoff)
    /\ nSleeps' = nSleeps + 1
    /\ backoff' = NextBackoff(backoff)
    /\ attempt' = attempt + 1
    /\ pc' = "request"
    /\ UNCHANGED <<data, exc>>

\* a retryable status on the last attempt: resp.raise_for_status() raises
RetriesExhausted(r) ==
    /\ IsRetryable(r.status_code)
    /\ ~CanRetry(attempt)
    /\ RaisesForStatus(r.status_code)
    /\ exc' = r.status_code
    /\ pc' = "except"
    /\ LeaveFetchPage
    /\ UNCHANGED <<data, nSleeps>>

\* any other 4xx or 5xx status: resp.raise_for_status() raises
RaiseForStatus(r) ==
    /\ ~IsRetryable(r.status_code)
    /\ RaisesForStatus(r.status_code)
    /\ exc' = r.status_code
    /\ pc' = "except"
    /\ LeaveFetchPage
    /\ UNCHANGED <<data, nSleeps>>

\* a success: return resp.json()
ReturnPage(r) ==
    /\ ~IsRetryable(r.status_code)
    /\ ~RaisesForStatus(r.status_code)
    /\ data' = r.body
    /\ pc' = "got"
    /\ LeaveFetchPage
    /\ UNCHANGED <<exc, nSleeps>>

\* one iteration of the attempt loop: requests.get answers with r
Request ==
    /\ pc = "request"
    /\ attempt <= max_retries
    /\ \E r \in Responses :
        /\ resp' = r
        /\ nReq' = nReq + 1
        /\ \/ RetryAfterWait(r)
           \/ RetriesExhausted(r)
           \/ RaiseForStatus(r)
           \/ ReturnPage(r)
    /\ UNCHANGED <<mainVars, page, all_results, seen_ids, collHist>>

\* requests.get raises (timeout, connection error): no HTTPError, so neither
\* fetch_all_results nor main catches it
RequestFails ==
    /\ pc = "request"
    /\ attempt <= max_retries
    /\ nReq' = nReq + 1
    /\ pc' = "aborted"
    /\ resp' = NoResp
    /\ LeaveFetchPage
    /\ UNCHANGED <<mainVars, collVars, exc, nSleeps, collHist>>

\* ---------------------------------------------------------- specification

\* a step of the run leaves the inputs of the aggregation functions alone
NoAggregation == UNCHANGED aggVars

\* a step of the run that is not observed by the request counter
Uncounted == UNCHANGED totalReq /\ NoAggregation

Next ==
    \/ MainNextQuery /\ Uncounted
    \/ MainStore /\ Uncounted
    \/ MainExport /\ Uncounted
    \/ CallFetchPage /\ Uncounted
    \/ LoopExhausted /\ Uncounted
    \/ HandleHTTPError /\ Uncounted
    \/ ProcessPage /\ Uncounted
    \/ Request /\ Uncounted
    \/ RequestFails /\ Uncounted

Spec == Init /\ [][Next]_vars

FairSpec == Spec /\ WF_vars(Next)

\* --------------------------------------- one collection, its requests counted

\* the run of one query, that is one call of fetch_all_results
CountInit == Init /\ Len(queries) = 1

\* the call starts, or its result has been taken: the count starts anew
CountReset == totalReq' = 0 /\ NoAggregation

\* requests.get is called once more
Counted == totalReq' = totalReq + 1 /\ NoAggregation

CountNext ==
    \/ MainNextQuery /\ CountReset
    \/ MainStore /\ CountReset
    \/ MainExport /\ Uncounted
    \/ CallFetchPage /\ Uncounted
    \/ LoopExhausted /\ Uncounted
    \/ HandleHTTPError /\ Uncounted
    \/ ProcessPage /\ Uncounted
    \/ Request /\ Counted
    \/ RequestFails /\ Counted

\* the single thread takes its next step and every request ends
CountSpec == CountInit /\ [][CountNext]_vars /\ WF_vars(CountNext)

\* -------------------------------------------------- aggregation: timelines

\* A period key is a str, modelled as the sequence of its code points:
\* "2024-01" is <<50, 48, 50, 52, 45, 48, 49>>.  A datetime is a record.

RECURSIVE Pow10(_)
Pow10(k) == IF k = 0 THEN 1 ELSE 10 * Pow10(k - 1)

\* strftime's %Y, %m and %d: n in decimal, zero-padded to width characters
Padded(n, width) == [i \in 1..width |-> 48 + ((n \div Pow10(width - i)) % 10)]

\* strptime's %Y, %m and %d: the number a run of decimal digits stands for
RECURSIVE Number(_)
Number(s) ==
    IF s = <<>> THEN 0
    ELSE 10 * Number(SubSeq(s, 1, Len(s) - 1)) + (s[Len(s)] - 48)

\* current.strftime("%Y-%m")
StrftimeMonth(dt) == Padded(dt.year, 4) \o <<45>> \o Padded(dt.month, 2)

\* current.strftime("%Y-%m-%d")
StrftimeDay(dt) == StrftimeMonth(dt) \o <<45>> \o Padded(dt.day, 2)

\* datetime.strptime(key, "%Y-%m"): the day defaults to 1
StrptimeMonth(key) ==
    [year |-> Number(SubSeq(key, 1, 4)), month |-> Number(SubSeq(key, 6, 7)),
     day |-> 1]

\* datetime.strptime(key, "%Y-%m-%d")
StrptimeDay(key) ==
    [year |-> Number(SubSeq(key, 1, 4)), month |-> Number(SubSeq(key, 6, 7)),
     day |-> Number(SubSeq(key, 9, 10))]

\* a < b on str: the order of the code points at the first difference
StrLess(a, b) ==
    \E i \in 1..Len(b) :
        /\ i <= Len(a) + 1
        /\ \A j \in 1..(i - 1) : a[j] = b[j]
        /\ i = Len(a) + 1 \/ a[i] < b[i]

\* sorted(keys): the keys in ascending order of str
RECURSIVE Sorted(_)
Sorted(keys) ==
    IF keys = {} THEN <<>>
    ELSE LET least == CHOOSE k \in keys : \A j \in keys \ {k} : StrLess(k, j)
         IN  <<least>> \o Sorted(keys \ {least})

\* a <= b on datetime
DatetimeLeq(a, b) ==
    \/ a.year < b.year
    \/ a.year = b.year /\ a.month < b.month
    \/ a.year = b.year /\ a.month = b.month /\ a.day <= b.day

\* the loop condition with the last period left out
NotPast_Exclusive(current, end) == current # end /\ DatetimeLeq(current, end)

\* while current <= end
NotPast(current, end) == DatetimeLeq(current, end)

\* build_monthly_timeline: the step to the next month
NextMonth(current) ==
    IF current.month = 12
    THEN [current EXCEPT !.year = current.year + 1, !.month = 1]
    ELSE [current EXCEPT !.month = current.month + 1]

\* the calendar of datetime
IsLeap(year) == year % 4 = 0 /\ (year % 100 # 0 \/ year % 400 = 0)

DaysInMonth(year, month) ==
    IF month = 2 THEN (IF IsLeap(year) THEN 29 ELSE 28)
    ELSE IF month \in {4, 6, 9, 11} THEN 30 ELSE 31

\* current += timedelta(days=1)
NextDay(current) ==
    IF current.day < DaysInMonth(current.year, current.month)
    THEN [current EXCEPT !.day = current.day + 1]
    ELSE IF current.month < 12
    THEN [current EXCEPT !.month = current.month + 1, !.day = 1]
    ELSE [year |-> current.year + 1, month |-> 1, day |-> 1]

\* build_monthly_timeline: the while loop
RECURSIVE MonthsFrom(_, _)
MonthsFrom(current, end) ==
    IF NotPast(current, end)
    THEN <<StrftimeMonth(current)>> \o MonthsFrom(NextMonth(current), end)
    ELSE <<>>

\* build_daily_timeline: the while loop
RECURSIVE DaysFrom(_, _)
DaysFrom(current, end) ==
    IF NotPast(current, end)
    THEN <<StrftimeDay(current)>> \o DaysFrom(NextDay(current), end)
    ELSE <<>>

\* the union of counts.keys() over the bucket mappings
AllKeys(mappings) == UNION {mappings[q] : q \in DOMAIN mappings}

build_monthly_timeline(monthly_data) ==
    LET all_months == AllKeys(monthly_data)
        sorted_months == Sorted(all_months)
    IN  IF all_months = {} THEN <<>>
        ELSE MonthsFrom(StrptimeMonth(sorted_months[1]),
                        StrptimeMonth(sorted_months[Len(sorted_months)]))

build_daily_timeline(daily_data) ==
    LET all_days == AllKeys(daily_data)
        sorted_days == Sorted(all_days)
    IN  IF all_days = {} THEN <<>>
        ELSE DaysFrom(StrptimeDay(sorted_days[1]),
                      StrptimeDay(sorted_days[Len(sorted_days)]))

\* -------------------------------------------- aggregation: rolling_average

RECURSIVE Sum(_)
Sum(chunk) == IF chunk = <<>> THEN 0 ELSE chunk[1] + Sum(Tail(chunk))

RECURSIVE Gcd(_, _)
Gcd(a, b) == IF b = 0 THEN a ELSE Gcd(b, a % b)

\* a / b: the quotient, as the fraction in lowest terms (two quotients of
\* small integers are the same float exactly when the fractions are equal)
Quotient(a, b) == LET g == Gcd(a, b) IN <<a \div g, b \div g>>

Max(a, b) == IF a >= b THEN a ELSE b
Min(a, b) == IF a <= b THEN a ELSE b

\* the half width of a window counted without its centre
HalfWindow_Narrow(window) == (window - 1) \div 2

\* half = window // 2
HalfWindow(window) == window \div 2

\* element k of the result is the one the loop appends for i = k - 1
rolling_average(values, window) ==
    LET half == HalfWindow(window)
    IN  [k \in 1..Len(values) |->
            LET i == k - 1
                start == Max(0, i - half)
                end == Min(Len(values), i + half + 1)
                chunk == SubSeq(values, start + 1, end)
            IN  IF chunk # <<>> THEN Quotient(Sum(chunk), Len(chunk))
                ELSE Quotient(0, 1)]

\* ------------------------------------------ aggregation: the inputs explored

\* the keys of the bucket mappings: months and days around the turn of a
\* year and the end of February, in a leap year and in a common year
MonthKeys ==
    {StrftimeMonth([year |-> y, month |-> m, day |-> 1]) :
        y \in 2023..2024, m \in {1, 2, 11, 12}}

\* days at the end of February of a common year
DayKeysCommonYear ==
    {StrftimeDay([year |-> 2023, month |-> d[1], day |-> d[2]]) :
        d \in {<<2, 27>>, <<2, 28>>, <<3, 1>>, <<3, 2>>}}

\* days from the turn of the year to the end of February of a leap year
DayKeysLeapYear ==
    {StrftimeDay([year |-> d[1], month |-> d[2], day |-> d[3]]) :
        d \in {<<2023, 12, 30>>, <<2023, 12, 31>>, <<2024, 1, 1>>,
               <<2024, 2, 28>>, <<2024, 2, 29>>, <<2024, 3, 1>>}}

\* monthly_data, daily_data: one bucket mapping per query, of which the
\* builders read the keys only
BucketMappings(keys) ==
    [{DEFAULT_QUERIES[n] : n \in 1..Len(DEFAULT_QUERIES)} ->
        {b \in SUBSET keys : Cardinality(b) <= MaxKeys}]

Series == UNION {[1..n -> {0, 1, 3}] : n \in 0..MaxSeries}

\* ---------------------------------------- aggregation: the functions applied

\* the state main calls the aggregation functions in: every query fetched
AggInit ==
    /\ queries = DEFAULT_QUERIES
    /\ max_pages = 0
    /\ pc = "export"
    /\ qi = Len(DEFAULT_QUERIES)
    /\ all_posts = StorePosts(StorePosts(<<>>, DEFAULT_QUERIES[1], <<>>),
                              DEFAULT_QUERIES[2], <<>>)
    /\ page = 0
    /\ all_results = <<>>
    /\ seen_ids = {}
    /\ data = NoBody
    /\ exc = 0
    /\ attempt = 0
    /\ backoff = 0
    /\ wait_time = 0
    /\ resp = NoResp
    /\ nReq = 0
    /\ nSleeps = 0
    /\ attempted = <<>>
    /\ firstSeen = <<>>
    /\ idsSeen = {}
    /\ sumCounts = 0
    /\ nDelays = 0
    /\ totalReq = 0
    /\ applied = 0
    /\ timeline = <<>>
    /\ averages = <<>>
    /\ \/ /\ fn = "build_monthly_timeline"
          /\ buckets \in BucketMappings(MonthKeys)
          /\ xs = <<>> /\ w = 0
       \/ /\ fn = "build_daily_timeline"
          /\ buckets \in BucketMappings(DayKeysCommonYear)
                         \cup BucketMappings(DayKeysLeapYear)
          /\ xs = <<>> /\ w = 0
       \/ /\ fn = "rolling_average"
          /\ buckets = <<>>
          /\ xs \in Series /\ w \in 0..MaxWindow

\* monthly_timeline = build_monthly_timeline(monthly_data)
BuildMonthlyTimeline ==
    /\ fn = "build_monthly_timeline"
    /\ applied = 0
    /\ timeline' = build_monthly_timeline(buckets)
    /\ applied' = 1
    /\ UNCHANGED <<fetchVars, totalReq, fn, buckets, xs, w, averages>>

\* daily_timeline = build_daily_timeline(daily_data)
BuildDailyTimeline ==
    /\ fn = "build_daily_timeline"
    /\ applied = 0
    /\ timeline' = build_daily_timeline(buckets)
    /\ applied' = 1
    /\ UNCHANGED <<fetchVars, totalReq, fn, buckets, xs, w, averages>>

\* the builder applied to bucket mappings keyed by the timeline it returned
BuildAgain ==
    /\ fn \in {"build_monthly_timeline", "build_daily_timeline"}
    /\ applied = 1
    /\ buckets' = [q \in DOMAIN buckets |->
                      {timeline[i] : i \in 1..Len(timeline)}]
    /\ timeline' = IF fn = "build_monthly_timeline"
                   THEN build_monthly_timeline(buckets')
                   ELSE build_daily_timeline(buckets')
    /\ applied' = 2
    /\ UNCHANGED <<fetchVars, totalReq, fn, xs, w, averages>>

\* smoothed = rolling_average(raw_values, window)
RollingAverage ==
    /\ fn = "rolling_average"
    /\ applied = 0
    /\ averages' = rolling_average(xs, w)
    /\ applied' = 1
    /\ UNCHANGED <<fetchVars, totalReq, fn, buckets, timeline, xs, w>>

AggNext ==
    \/ BuildMonthlyTimeline
    \/ BuildDailyTimeline
    \/ BuildAgain
    \/ RollingAverage

AggSpec == AggInit /\ [][AggNext]_vars

\* ------------------------------------------------------------------ claims

\* the statuses fetch_search_page retries on
RetryStatuses == {429, 502, 503}

\* C1: a call of fetch_search_page whose responses all have status 429, 502
\* or 503 issues at most max_retries + 1 requests: while the call runs every
\* response so far was retryable and fewer than max_retries + 1 requests
\* were made, so a next attempt is always left; the call never returns a page
\* on a retryable response; and when it ends on a retryable response it has
\* made exactly max_retries + 1 requests and raises the HTTP error of that
\* response's status.
C1_RetriesExhaustedRaise ==
    /\ nReq <= max_retries + 1
    /\ pc = "request" =>
          /\ nReq = attempt
          /\ attempt <= max_retries
          /\ nReq >= 1 => resp.status_code \in RetryStatuses
    /\ pc = "got" => resp.status_code \notin RetryStatuses
    /\ (pc = "except" /\ resp.status_code \in RetryStatuses) =>
          /\ nReq = max_retries + 1
          /\ exc = resp.status_code

C1_Witness ==
    /\ pc = "except"
    /\ resp.status_code = 429
    /\ exc = 429
    /\ nReq = MAX_RETRIES + 1
    /\ nSleeps = MAX_RETRIES

\* C2 (state part): when fetch_search_page returns, what it returns is the
\* body of the last response, that response is a success, and the call slept
\* once for each of the n <= max_retries retryable responses before it.
C2_ReturnsPage ==
    pc = "got" =>
        /\ resp.status_code = 200
        /\ data = resp.body
        /\ nSleeps = nReq - 1
        /\ nSleeps <= max_retries

\* C2 (step part): a sleep that takes no Retry-After value is at least as
\* long as the sleep before it when that one took none either.
C2_BackoffNonDecreasing ==
    [][(/\ pc = "request" /\ pc' = "request" /\ nSleeps >= 1
        /\ ~NumericRetryAfter(resp) /\ ~NumericRetryAfter(resp'))
          => wait_time' >= wait_time]_vars

\* C2: n <= max_retries retryable responses and then a success: the call
\* returns the parsed body of the success after exactly n sleeps, whose
\* durations are non-decreasing when no Retry-After value is used.
C2_RetryThenSuccess == []C2_ReturnsPage /\ C2_BackoffNonDecreasing

C2_Witness ==
    /\ pc = "got"
    /\ nReq = 4
    /\ nSleeps = 3
    /\ resp.status_code = 200
    /\ data = resp.body
    /\ ResultsOf(data) # <<>>

\* C3: the wait before the retry that follows the k-th retryable response
\* (k = 0, 1, ...) is the number in that response's Retry-After header when
\* there is one, and INITIAL_BACKOFF * 2^k otherwise, whatever the earlier
\* retries of the call waited.
C3_WaitDuration ==
    (pc = "request" /\ nSleeps >= 1) =>
        wait_time =
            IF NumericRetryAfter(resp)
            THEN Float(resp.headers["Retry-After"])
            ELSE INITIAL_BACKOFF * Pow2(nSleeps - 1)

\* the second retry waits what its Retry-After says, and the backoff of the
\* third is 10 * 2^2 all the same
C3_Witness ==
    /\ pc = "request"
    /\ nSleeps = 2
    /\ NumericRetryAfter(resp)
    /\ wait_time = 5
    /\ backoff = 40

\* C4 (state part): only the statuses 429, 502 and 503 are ever retried, and
\* when the call raises on another status no sleep followed that response:
\* the sleeps are those of the retryable responses before it.
C4_NoSleepBeforeRaise ==
    /\ (pc = "request" /\ nReq >= 1) => resp.status_code \in RetryStatuses
    /\ (pc = "except" /\ resp.status_code \notin RetryStatuses) =>
          /\ resp.status_code # 200
          /\ exc = resp.status_code
          /\ nSleeps = nReq - 1

\* C4 (step part): a response with an error status other than 429, 502, 503
\* ends the call at once with the HTTP error of that status, without a
\* sleep; and once the error is raised no request or sleep follows for that
\* page.
C4_RaisesAtOnce ==
    [][/\ (pc = "request" /\ pc' # "aborted"
            /\ resp'.status_code \notin (RetryStatuses \cup {200}))
          => (pc' = "except" /\ exc' = resp'.status_code /\ nSleeps' = nSleeps)
       /\ pc = "except"
          => (pc' \in {"return", "aborted"} /\ nReq' = nReq /\ nSleeps' = nSleeps)
      ]_vars

\* C4: a non-success status other than 429, 502 and 503 makes
\* fetch_search_page raise the HTTP error for it immediately, on whichever
\* attempt it arrives: no sleep and no further request for that page.
C4_OtherStatusRaises == []C4_NoSleepBeforeRaise /\ C4_RaisesAtOnce

C4_Witness ==
    /\ pc = "except"
    /\ exc = 404
    /\ resp.status_code = 404
    /\ nReq = 3
    /\ nSleeps = 2

\* the statuses on which fetch_all_results stops and keeps what it has
StopStatuses == {400, 422, 429, 502, 503}

\* the page indices 0 .. n-1 in order
PagesUpTo(n) == [i \in 1..n |-> i - 1]

\* C5: when the fetch of page p has raised an HTTP error with status 400,
\* 422, 502, 503 or 429, fetch_all_results does not raise: it returns, the
\* pages it asked for are 0..p and no other, and what it returns is the
\* deduplicated records of the pages 0..p-1 it processed.
C5_StopKeepsCollected ==
    (exc \in StopStatuses /\ pc # "except") =>
        /\ pc = "return"
        /\ attempted = PagesUpTo(page + 1)
        /\ all_results = firstSeen
        /\ Len(all_results) = Cardinality(idsSeen)

C5_Witness ==
    /\ pc = "return"
    /\ exc = 422
    /\ page = 1
    /\ attempted = <<0, 1>>
    /\ Len(all_results) = 2

\* C6 (state part): after an HTTP error with a status outside 400, 422,
\* 429, 502, 503 the run is aborted: the query in progress has no entry in
\* all_posts, whatever was collected for it, and the export phase is not
\* reached.
C6_FatalAborts ==
    (exc \notin (StopStatuses \cup {0}) /\ pc # "except") =>
        /\ pc = "aborted"
        /\ qi < Len(queries)
        /\ queries[qi + 1] \notin DOMAIN all_posts

\* C6 (step part): such an error is re-raised, and nothing happens after
\* the abort: no query is fetched, nothing is stored, nothing is exported.
C6_AbortIsFinal ==
    [][/\ (pc = "except" /\ exc \notin StopStatuses)
          => (pc' = "aborted" /\ all_posts' = all_posts /\ qi' = qi)
       /\ pc # "aborted"
      ]_vars

\* C6: an HTTP error with any other status propagates out of
\* fetch_all_results and out of main: the records collected for the query
\* are not returned, no later query is fetched and nothing is exported.
C6_FatalErrorPropagates == []C6_FatalAborts /\ C6_AbortIsFinal

C6_Witness ==
    /\ pc = "aborted"
    /\ exc = 500
    /\ qi = 1
    /\ all_results # <<>>
    /\ all_posts[queries[1]] # <<>>

\* the collection of the current query has stopped on a recoverable status
RecoverableStop == pc = "return" /\ exc \in StopStatuses

\* every query has a result set and the export phase is reached
AllExported == pc = "export" /\ \A i \in 1..Len(queries) : queries[i] \in DOMAIN all_posts

\* C7 as claimed: after a recoverable stop the run always reaches the export
\* phase with a result set for every query.
C7_AlwaysExports == RecoverableStop ~> AllExported

\* C7 (state part): the queries are fetched one after another: while one is
\* being fetched, exactly the queries before it have their result sets.
C7_Sequential ==
    /\ qi <= Len(queries)
    /\ DOMAIN all_posts = {queries[i] : i \in 1..qi}
    /\ pc \in {"page_loop", "request", "got", "except", "return"} => qi < Len(queries)
    /\ pc = "export" => qi = Len(queries)

\* C7 (step part): a recoverable stop is followed by the storing of the
\* partial results as the query's result set, and the stored query by the
\* next query at page 0 or, after the last query, by the export phase.
C7_StopProceeds ==
    [][/\ RecoverableStop
          => /\ pc' = "main"
             /\ qi' = qi + 1
             /\ all_posts'[queries[qi + 1]] = all_results
       /\ pc = "main"
          => IF qi < Len(queries)
             THEN pc' = "page_loop" /\ page' = 0 /\ all_results' = <<>> /\ qi' = qi
             ELSE pc' = "export"
      ]_vars

\* C7 amended: a recoverable stop does not halt the run: the partial
\* results are kept, the next query starts at page 0, the queries are
\* fetched one after another, and the run reaches the export phase with a
\* result set for every query unless a later query ends in a fatal error,
\* which aborts the run.
C7_RecoverableStopProceeds ==
    /\ []C7_Sequential
    /\ C7_StopProceeds
    /\ RecoverableStop ~> (AllExported \/ pc = "aborted")

C7_Witness ==
    /\ pc = "request"
    /\ qi = 1
    /\ page = 0
    /\ Len(queries) = 2
    /\ all_posts[queries[1]] # <<>>
    /\ nReq = 0

\* no two records of s have the same id, and every record has a truthy id
UniqueIds(s) ==
    /\ \A i \in 1..Len(s) : HasTruthyId(s[i])
    /\ \A i, j \in 1..Len(s) : s[i].id = s[j].id => i = j

\* C8: in fetch_all_results no two collected records have the same id:
\* all_results is, in first-seen order, the first record of each truthy id
\* on the pages processed, records without a truthy id are dropped, its size
\* is the number of distinct ids seen, and this stays so after each record
\* of the page being processed.
C8_Deduplicated ==
    /\ UniqueIds(all_results)
    /\ all_results = firstSeen
    /\ seen_ids = idsSeen
    /\ Len(all_results) = Cardinality(idsSeen)
    /\ pc = "got" =>
          \A k \in 0..Len(ResultsOf(data)) :
              UniqueIds(DedupPage(all_results, seen_ids,
                                  SubSeq(ResultsOf(data), 1, k)).all_results)

\* page 0 has been processed and page 1 repeats its id
C8_Witness ==
    /\ pc = "got"
    /\ page = 1
    /\ sumCounts = 2
    /\ all_results = <<[id |-> 1, title |-> "b"]>>
    /\ ResultsOf(data) = <<[id |-> 1, title |-> "a"], [id |-> 2, title |-> "c"]>>
    /\ DedupPage(all_results, seen_ids, ResultsOf(data)).all_results
          = <<[id |-> 1, title |-> "b"], [id |-> 2, title |-> "c"]>>

\* the body has no "more" key, or a false one
NoMore(d) == "more" \notin DOMAIN d \/ d.more = FALSE

\* the body has no "results" key, or an empty list
NoResults(d) == "results" \notin DOMAIN d \/ d.results = <<>>

\* C9 (step part): a page returned without results ends the pagination as
\* it is; a page returned with results and without more ends it after its
\* records are taken in; either way no page is asked for after it.
C9_StopsAtEnd ==
    [][/\ (pc = "got" /\ NoResults(data))
          => /\ pc' = "return"
             /\ all_results' = all_results
             /\ attempted' = attempted
       /\ (pc = "got" /\ ~NoResults(data) /\ NoMore(data))
          => /\ pc' = "return"
             /\ all_results' = FirstOccurrences(all_results \o data.results)
             /\ attempted' = attempted
       /\ pc = "return"
          => (pc' = "main" /\ all_posts'[queries[qi + 1]] = all_results)
      ]_vars

\* C9 (state part): when the collection ends without an HTTP error before
\* max_pages pages were asked for, the pages asked for are 0..page.
C9_NoLaterPage ==
    (pc = "return" /\ exc = 0 /\ page < max_pages) => attempted = PagesUpTo(page + 1)

\* C9: fetch_all_results stops at the first end-of-results signal.
C9_StopsAtEndOfResults == []C9_NoLaterPage /\ C9_StopsAtEnd

C9_Witness ==
    /\ pc = "return"
    /\ exc = 0
    /\ page = 0
    /\ max_pages = 2
    /\ attempted = <<0>>
    /\ all_results # <<>>

\* C10: fetch_all_results asks for the pages 0, 1, 2, ... in order, at most
\* max_pages of them and none when max_pages <= 0, and it never holds more
\* records than the pages returned to it have carried.
C10_PageCap ==
    /\ attempted = PagesUpTo(Len(attempted))
    /\ Len(attempted) <= (IF max_pages > 0 THEN max_pages ELSE 0)
    /\ Len(all_results) <= sumCounts
    /\ pc \in {"request", "got", "except"} => Len(attempted) = page + 1

C10_Witness ==
    /\ pc = "return"
    /\ max_pages = 2
    /\ attempted = <<0, 1>>
    /\ page = 2
    /\ Len(all_results) < sumCounts

\* the pauses between n page fetches
Gaps(n) == IF n = 0 THEN 0 ELSE n - 1

\* C11: the sleeps of `delay` are those between successive page fetches:
\* while page p is being fetched or handled there has been one sleep for
\* each of the pages before it, and when the collection returns there has
\* been one sleep less than pages fetched, so none after the last fetch.
C11_DelayOnlyBetweenFetches ==
    /\ pc \in {"request", "got", "except"} => nDelays = Gaps(Len(attempted))
    /\ pc = "return" => nDelays = Gaps(Len(attempted))

\* the calendar the timelines are measured against: days before each month
\* of a common year, then the whole year
CumulativeDays == <<0, 31, 59, 90, 120, 151, 181, 212, 243, 273, 304, 334, 365>>

DaysBeforeMonth(year, month) ==
    CumulativeDays[month] + (IF month > 2 /\ IsLeap(year) THEN 1 ELSE 0)

DaysBeforeYear(year) ==
    365 * (year - 1) + ((year - 1) \div 4) - ((year - 1) \div 100)
        + ((year - 1) \div 400)

\* a key that names a month, resp. a day, of the calendar in the key format
IsMonthKey(key) ==
    /\ Len(key) = 7
    /\ StrptimeMonth(key).month \in 1..12
    /\ StrftimeMonth(StrptimeMonth(key)) = key

IsDayKey(key) ==
    /\ Len(key) = 10
    /\ LET dt == StrptimeDay(key)
       IN  /\ dt.month \in 1..12
           /\ dt.day >= 1
           /\ dt.day <= DaysBeforeMonth(dt.year, dt.month + 1)
                            - DaysBeforeMonth(dt.year, dt.month)
    /\ StrftimeDay(StrptimeDay(key)) = key

\* the number of the month, resp. the day, a key names
MonthIndex(key) == 12 * StrptimeMonth(key).year + StrptimeMonth(key).month

DayNumber(key) ==
    LET dt == StrptimeDay(key)
    IN  DaysBeforeYear(dt.year) + DaysBeforeMonth(dt.year, dt.month) + dt.day

IsPeriodKey(key) ==
    IF fn = "build_monthly_timeline" THEN IsMonthKey(key) ELSE IsDayKey(key)

PeriodIndex(key) ==
    IF fn = "build_monthly_timeline" THEN MonthIndex(key) ELSE DayNumber(key)

\* the timeline returned for the bucket mappings: empty when they have no
\* key, else from the earliest key to the latest, with every key, and each
\* entry one month (one day) after the one before
C12_Contiguous ==
    (fn \in {"build_monthly_timeline", "build_daily_timeline"} /\ applied >= 1) =>
        LET keys == AllKeys(buckets)
            n == Len(timeline)
        IN  IF keys = {} THEN timeline = <<>>
            ELSE /\ n >= 1
                 /\ \A i \in 1..n : IsPeriodKey(timeline[i])
                 /\ timeline[1] \in keys
                 /\ \A k \in keys : PeriodIndex(timeline[1]) <= PeriodIndex(k)
                 /\ timeline[n] \in keys
                 /\ \A k \in keys : PeriodIndex(k) <= PeriodIndex(timeline[n])
                 /\ \A k \in keys : \E i \in 1..n : timeline[i] = k
                 /\ \A i \in 1..(n - 1) :
                        PeriodIndex(timeline[i + 1]) = PeriodIndex(timeline[i]) + 1

\* the builder applied to mappings keyed by its own output returns that output
C12_Idempotent == [][applied = 1 /\ applied' = 2 => timeline' = timeline]_vars

\* C12: build_monthly_timeline and build_daily_timeline return the empty
\* sequence when no mapping has a key, and otherwise the sequence from the
\* minimum key to the maximum key that contains every key and in which each
\* entry is one calendar month (one calendar day) after the previous one,
\* across the turn of a year too; applied again to mappings keyed by its
\* output the builder returns the same sequence.
C12_TimelineContiguous == []C12_Contiguous /\ C12_Idempotent

\* a daily timeline from 2023-12-31 to 2024-03-01, built twice: it crosses
\* the turn of the year and the 29th of February
C12_Witness ==
    /\ fn = "build_daily_timeline"
    /\ applied = 2
    /\ Len(timeline) = 62
    /\ timeline[1] = StrftimeDay([year |-> 2023, month |-> 12, day |-> 31])
    /\ timeline[2] = StrftimeDay([year |-> 2024, month |-> 1, day |-> 1])
    /\ timeline[61] = StrftimeDay([year |-> 2024, month |-> 2, day |-> 29])
    /\ timeline[62] = StrftimeDay([year |-> 2024, month |-> 3, day |-> 1])

\* the mean of the whole series
MeanOf(series) == Quotient(Sum(series), Len(series))

\* every element of the result is the mean of the whole series
AllOverallMean ==
    /\ Len(averages) = Len(xs)
    /\ \A i \in 1..Len(xs) : averages[i] = MeanOf(xs)

\* the statement for every window larger than the series
C13_LargerWindowGivesMean ==
    (fn = "rolling_average" /\ applied = 1 /\ w > Len(xs)) => AllOverallMean

\* C13: rolling_average(xs, w) returns len(xs) elements for every
\* non-negative window w, and every one of them equals the overall mean of
\* xs when the half window w // 2 reaches from either end of the series to
\* the other (w // 2 >= len(xs) - 1); empty input gives empty output.
C13_WideWindowGivesMean ==
    (fn = "rolling_average" /\ applied = 1) =>
        /\ Len(averages) = Len(xs)
        /\ w \div 2 >= Len(xs) - 1 => AllOverallMean

\* a series of four values smoothed with a window of six
C13_Witness ==
    /\ fn = "rolling_average"
    /\ applied = 1
    /\ xs = <<0, 0, 0, 1>>
    /\ w = 6
    /\ averages = <<<<1, 4>>, <<1, 4>>, <<1, 4>>, <<1, 4>>>>

\* a page in hand that is not empty and has no record to add: each record
\* has no truthy id or an id collected before
NothingNewOnPage ==
    /\ pc = "got"
    /\ ResultsOf(data) # <<>>
    /\ \A i \in 1..Len(ResultsOf(data)) :
          \/ ~HasTruthyId(ResultsOf(data)[i])
          \/ ResultsOf(data)[i].id \in seen_ids

\* the requests of one call stay within max_pages * (MAX_RETRIES + 1), and
\* the pages requested are 0, 1, 2, ... with no index requested twice
C14_RequestBound ==
    /\ totalReq <= (IF max_pages > 0 THEN max_pages ELSE 0) * (MAX_RETRIES + 1)
    /\ \A i \in 1..Len(attempted) : attempted[i] = i - 1

\* a call that has started returns or raises
C14_Terminates == (pc = "page_loop") ~> (pc \in {"return", "aborted"})

\* a non-empty page without a new record is handled as any non-empty page:
\* nothing is collected from it and the loop goes on to the next index,
\* unless the page says there are no more
C14_NothingNewMovesOn ==
    [][NothingNewOnPage =>
          /\ all_results' = all_results
          /\ IF HasMore(data)
             THEN pc' = "page_loop" /\ page' = page + 1
             ELSE pc' = "return"]_vars

\* C14: whatever the server answers, one call of fetch_all_results ends, by
\* returning or by raising, after at most max_pages * (MAX_RETRIES + 1)
\* requests; a non-empty page all of whose records are duplicates or have
\* no id neither keeps the loop on its page nor stops it: the next request
\* is for the next page index.
C14_BoundedRequests ==
    /\ []C14_RequestBound
    /\ C14_Terminates
    /\ C14_NothingNewMovesOn

\* page 1 in hand after twelve requests, six for each page, holding a
\* duplicate and a record without id, with more pages announced
C14_Witness ==
    /\ pc = "got"
    /\ max_pages = 2
    /\ page = 1
    /\ totalReq = 2 * (MAX_RETRIES + 1)
    /\ all_results = <<[id |-> 1, title |-> "a"]>>
    /\ ResultsOf(data) = <<[id |-> 1, title |-> "b"], [title |-> "n"]>>
    /\ HasMore(data)

====
